---- MODULE Spec2Model ----
(***************************************************************************)
(* PurrfectBytes: text -> narrated video with per-character highlighting.  *)
(*                                                                         *)
(* Modelled here:                                                          *)
(*   - the proportional timing estimator of TTSService                     *)
(*     (_calculate_character_timings, analyze_audio_timing,                *)
(*     _create_fallback_timing) and the legacy analyze_audio_timing of     *)
(*     PurrfectBytesWeb/app.py;                                            *)
(*   - text segmentation (wrap_text_for_video and its two helpers).        *)
(*                                                                         *)
(* Characters are Unicode code points, a text is a sequence of them.       *)
(* Python floats are modelled as exact rationals in lowest terms, so the   *)
(* properties below are statements about the arithmetic the code writes,   *)
(* not about binary rounding.                                              *)
(***************************************************************************)
EXTENDS Integers, Sequences, FiniteSets, TLC

(***************************************************************************)
(* Bounds                                                                  *)
(***************************************************************************)
MaxTextLen == 4
MaxCharWidth == 2
MaxCanvasWidth == 5

(***************************************************************************)
(* Exact rationals [n, d] with d > 0, in lowest terms.                     *)
(***************************************************************************)
Abs(x) == IF x < 0 THEN -x ELSE x

RECURSIVE GCD(_, _)
GCD(a, b) == IF b = 0 THEN a ELSE GCD(b, a % b)

Rat(n, d) ==
    LET s == IF d < 0 THEN -1 ELSE 1
        g == GCD(Abs(n), Abs(d))
    IN  [n |-> (s * n) \div g, d |-> (s * d) \div g]

RInt(k) == [n |-> k, d |-> 1]
Zero == RInt(0)
Tenths(k) == Rat(k, 10)

RAdd(a, b) == Rat(a.n * b.d + b.n * a.d, a.d * b.d)
RSub(a, b) == Rat(a.n * b.d - b.n * a.d, a.d * b.d)
RMul(a, b) == Rat(a.n * b.n, a.d * b.d)
RDiv(a, b) == Rat(a.n * b.d, a.d * b.n)
RLe(a, b) == a.n * b.d <= b.n * a.d
RLt(a, b) == a.n * b.d < b.n * a.d
RMax(a, b) == IF RLt(a, b) THEN b ELSE a

(***************************************************************************)
(* Characters and texts                                                    *)
(***************************************************************************)
SPACE == 32
Alphabet == {SPACE, 97, 98, 20013}

RECURSIVE SeqsUpTo(_, _)
SeqsUpTo(S, k) ==
    IF k = 0 THEN {<<>>}
    ELSE LET shorter == SeqsUpTo(S, k - 1)
         IN  shorter \cup {Append(s, c) : s \in {t \in shorter : Len(t) = k - 1}, c \in S}

\* "Hi there"
HiThere == <<72, 105, 32, 116, 104, 101, 114, 101>>

Texts == SeqsUpTo(Alphabet, MaxTextLen) \cup {HiThere}

Durations == {Tenths(-10), Tenths(0), Tenths(5), Tenths(20), Tenths(35)}
LeadTimes == {Tenths(0), Tenths(3)}
OverlapDurations == {Tenths(0), Tenths(4)}

DefaultLeadTime == Tenths(3)
DefaultOverlapDuration == Tenths(4)

VARIABLES
    text,              \* the text argument
    duration,          \* the duration argument / the duration of the audio file
    lead_time,         \* the lead_time argument
    overlap_duration,  \* the overlap_duration argument
    pc,                \* which operation has run
    probe,             \* outcome of librosa.load / get_duration: "none", "ok", "fail"
    char_timings,      \* the returned list of CharacterTiming
    analysis,          \* the returned AudioAnalysis (its scalar fields), or NoAnalysis
    raised,            \* exception escaping the call, "none" if it returned
    width,             \* canvas width passed to wrap_text_for_video
    padding,           \* padding passed to wrap_text_for_video
    font,              \* the font, as the measured width of each character
    lines              \* the returned list of lines

VARIABLES
    frame_time,        \* t, the playback time of the frame last generated
    active_chars,      \* the set of positions highlighted in that frame
    frame              \* the drawing calls of that frame, one record per character

\* the video requests: routes.convert_to_video, routes.repeat_video_endpoint and
\* VideoService.generate_and_repeat, each request r running its handler
VARIABLES
    req,               \* req[r]: the arguments of request r
    rpc,               \* rpc[r]: how far the handler of request r has run
    font_size,         \* font_size[r]: the handler's local font_size
    repetitions,       \* repetitions[r]: the handler's local repetitions
    audio_path,        \* audio_path[r]: the audio file of the request, or NoPath
    single_video_path, \* single_video_path[r]: the once-rendered video, or NoPath
    video_path,        \* video_path[r]: the handler's local video_path, or NoPath
    result,            \* result[r]: what the handler returned or raised
    disk,              \* disk[f]: the content of the file named f
    writing,           \* writing[r]: the paths request r is writing to right now
    created,           \* created[r]: the paths request r has created so far
    synth_calls,       \* synth_calls[r]: calls of the speech engine by request r
    render_calls,      \* render_calls[r]: calls of the highlighted-video renderer
    concat_failed      \* concat_failed[r]: the concatenation of request r failed

\* cleanup_old_files of VideoService (*.mp4) and TTSService (*.mp3)
VARIABLES
    present,           \* the files that exist in the directory
    age_hours,         \* age_hours[f]: (current_time - st_mtime) of file f, in hours
    glob_list,         \* the files the glob listed, in the order of the loop
    sweep_pc,          \* where the sweep is: "idle", "stat", "unlink", "returned", "raised"
    sweep_idx,         \* the index in glob_list of the file the loop is at
    removed_count,     \* the local removed_count
    sweep_raised,      \* the exception that escaped cleanup_old_files, or "none"
    removed,           \* the files the sweep unlinked
    ignored            \* the files whose unlink raised an OSError that was passed over

\* TTSEngineFactory, the engines and the calls of TTSService that synthesize
VARIABLES
    available,         \* available[e]: what is_available() of the engine e answers
    instances,         \* TTSEngineFactory._instances
    constructed,       \* constructed[e]: the engine objects of type e constructed so far
    audio_files,       \* the audio files of the last call that exist (uuid4 names
                       \* keep them apart from the files of earlier calls)
    calls,             \* the calls served so far
    call,              \* the arguments of the last call
    outcome            \* what the last call did and returned

vars == <<text, duration, lead_time, overlap_duration, pc, probe,
          char_timings, analysis, raised, width, padding, font, lines,
          frame_time, active_chars, frame,
          req, rpc, font_size, repetitions, audio_path, single_video_path,
          video_path, result, disk, writing, created, synth_calls, render_calls,
          concat_failed,
          present, age_hours, glob_list, sweep_pc, sweep_idx, removed_count,
          sweep_raised, removed, ignored,
          available, instances, constructed, audio_files, calls, call, outcome>>

timingVars == <<text, duration, lead_time, overlap_duration, probe,
                char_timings, analysis, raised>>
wrapVars == <<width, padding, font, lines>>
renderVars == <<frame_time, active_chars, frame>>

requestVars == <<req, rpc, font_size, repetitions, audio_path, single_video_path,
                 video_path, result, disk, writing, created, synth_calls,
                 render_calls, concat_failed>>

cleanupVars == <<present, age_hours, glob_list, sweep_pc, sweep_idx, removed_count,
                 sweep_raised, removed, ignored>>

engineVars == <<available, instances, constructed, audio_files, calls, call, outcome>>

\* the variables of the video renderer and the services
serviceVars == <<renderVars, requestVars, cleanupVars, engineVars>>

NoAnalysis == [duration |-> Zero, words_per_second |-> Zero,
               lead_time |-> Zero, overlap_duration |-> Zero, valid |-> FALSE]

(***************************************************************************)
(* str.split(): maximal runs of non-whitespace characters                  *)
(***************************************************************************)
IsWhitespace(c) ==
    c \in {9, 10, 11, 12, 13, 28, 29, 30, 31, 32, 133, 160, 5760, 8232, 8233,
           8239, 8287, 12288} \cup (8192 .. 8202)

RECURSIVE SplitFrom(_, _, _)
SplitFrom(s, i, word) ==
    IF i > Len(s)
    THEN IF word = <<>> THEN <<>> ELSE <<word>>
    ELSE IF IsWhitespace(s[i])
         THEN (IF word = <<>> THEN <<>> ELSE <<word>>) \o SplitFrom(s, i + 1, <<>>)
         ELSE SplitFrom(s, i + 1, Append(word, s[i]))

Split(s) == SplitFrom(s, 1, <<>>)

(***************************************************************************)
(* TTSService._calculate_character_timings                                 *)
(***************************************************************************)
\* variant: counts every character, spaces included
NonSpaceCount_All(s) == Len(s)

\* len(list(text.replace(' ', '')))
NonSpaceCount(s) == Cardinality({i \in 1 .. Len(s) : s[i] # SPACE})

\* variant: a space advances current_pos by a full character
CharWeight_Uniform(c) == RInt(1)

\* the amount current_pos advances by: 0.5 for a space, 1 otherwise
CharWeight(c) == IF c = SPACE THEN Rat(1, 2) ELSE RInt(1)

\* max(0, (current_pos / chars_per_second) - lead_time)
StartTime(current_pos, cps, lead) == RMax(Zero, RSub(RDiv(current_pos, cps), lead))

\* variant: the end is taken at current_pos, not at current_pos + w
EndTime_NoAdvance(current_pos, w, cps, overlap) == RAdd(RDiv(current_pos, cps), overlap)

\* ((current_pos + w) / chars_per_second) + overlap_duration
EndTime(current_pos, w, cps, overlap) == RAdd(RDiv(RAdd(current_pos, w), cps), overlap)

\* variant: position counted from 1
CharacterTiming_OneBased(char, start, end, i) ==
    [char |-> char, start_time |-> start, end_time |-> end, position |-> i]

\* CharacterTiming(char=char, start_time=..., end_time=..., position=i);
\* i is the 1-based index into the TLA+ sequence, enumerate() counts from 0
CharacterTiming(char, start, end, i) ==
    [char |-> char, start_time |-> start, end_time |-> end, position |-> i - 1]

\* the pydantic constraints of CharacterTiming (ge=0 on times and position)
CharacterTimingValid(t) ==
    RLe(Zero, t.start_time) /\ RLe(Zero, t.end_time) /\ t.position >= 0

RECURSIVE TimingLoop(_, _, _, _, _, _)
TimingLoop(s, i, current_pos, cps, lead, overlap) ==
    IF i > Len(s) THEN <<>>
    ELSE LET w == CharWeight(s[i])
         IN  <<CharacterTiming(s[i], StartTime(current_pos, cps, lead),
                               EndTime(current_pos, w, cps, overlap), i)>>
             \o TimingLoop(s, i + 1, RAdd(current_pos, w), cps, lead, overlap)

CharsPerSecond(char_count, dur) ==
    IF RLt(Zero, dur) THEN RDiv(RInt(char_count), dur) ELSE RInt(1)

calculate_character_timings(s, dur, lead, overlap) ==
    LET char_count == NonSpaceCount(s)
    IN  IF char_count = 0 THEN <<>>
        ELSE TimingLoop(s, 1, Zero, CharsPerSecond(char_count, dur), lead, overlap)

AllTimingsValid(ts) == \A k \in 1 .. Len(ts) : CharacterTimingValid(ts[k])

\* no frame has been generated
RenderIdle ==
    /\ frame_time = Zero
    /\ active_chars = {}
    /\ frame = <<>>

NumRequests == 2
Requests == 1 .. NumRequests

\* file names.  uuid.uuid4() never returns the same value twice, so a name built
\* from a uuid is modelled as a name that carries the request it was drawn for.
NoPath == <<"None", 0>>
AudioPath(r) == <<"audio_uuid", r>>
SingleVideoPath(r) == <<"uuid.mp4", r>>
RepeatVideoPath(r) == <<"repeat_Nx_uuid.mp4", r>>
TempAudioFile == <<"temp-audio.m4a", 0>>

Paths ==
    {AudioPath(r) : r \in Requests} \cup {SingleVideoPath(r) : r \in Requests}
        \cup {RepeatVideoPath(r) : r \in Requests} \cup {TempAudioFile}

\* file contents: no file, a file being written or left half-written, a finished
\* file holding `copies` copies of the rendered clip (1 for an audio file)
Absent == [state |-> "absent", copies |-> 0]
Partial == [state |-> "partial", copies |-> 0]
Complete(n) == [state |-> "complete", copies |-> n]

MinFontSize == 16
MaxFontSize == 200
DefaultFontSize == 48
MinRepetitions == 1
MaxRepetitions == 100

NoRequest == [kind |-> "none", text_ok |-> TRUE, font_size |-> DefaultFontSize,
              repetitions |-> 1]
NoResult == [status |-> "none", filename |-> NoPath, duration_factor |-> 0,
             message_repetitions |-> 0]

\* no request is being handled
RequestsIdle ==
    /\ req = [r \in Requests |-> NoRequest]
    /\ rpc = [r \in Requests |-> "off"]
    /\ font_size = [r \in Requests |-> DefaultFontSize]
    /\ repetitions = [r \in Requests |-> 1]
    /\ audio_path = [r \in Requests |-> NoPath]
    /\ single_video_path = [r \in Requests |-> NoPath]
    /\ video_path = [r \in Requests |-> NoPath]
    /\ result = [r \in Requests |-> NoResult]
    /\ disk = [f \in Paths |-> Absent]
    /\ writing = [r \in Requests |-> {}]
    /\ created = [r \in Requests |-> {}]
    /\ synth_calls = [r \in Requests |-> 0]
    /\ render_calls = [r \in Requests |-> 0]
    /\ concat_failed = [r \in Requests |-> FALSE]

NumFiles == 3
Files == 1 .. NumFiles

\* no sweep is running and the directory is empty
CleanupIdle ==
    /\ present = {}
    /\ age_hours = [f \in Files |-> 1]
    /\ glob_list = <<>>
    /\ sweep_pc = "idle"
    /\ sweep_idx = 1
    /\ removed_count = 0
    /\ sweep_raised = "none"
    /\ removed = {}
    /\ ignored = {}

\* class TTSEngine(str, Enum)
Engines == {"gtts", "edge", "piper"}
NoEngine == "None"

\* an engine object: audio_format is BaseTTSEngine.audio_format, output_format the
\* format PiperTTSEngine converts to (the other engines have no such field and
\* carry their audio_format there); serial tells the objects of one type apart
NoInstance == [engine |-> "none", audio_dir |-> "none", audio_format |-> "none",
               output_format |-> "none", serial |-> 0]

\* an audio file: its directory, its extension, the call that wrote it and
\* whether it is the single synthesis or the repeated output
NoFile == [audio_dir |-> "none", ext |-> "none", owner |-> 0, role |-> "none"]

NoCall == [op |-> "none", text |-> <<>>, repetitions |-> 1, engine |-> NoEngine,
           audio_dir |-> "none", audio_format |-> "none"]

NoOutcome == [exception |-> "none", status_code |-> 0, raised_400 |-> FALSE,
              path |-> NoFile, returned |-> <<>>, generate_calls |-> 0,
              export_calls |-> 0, created |-> {}]

\* no engine was asked for and no call was served
EngineIdle ==
    /\ available = [e \in Engines |-> TRUE]
    /\ instances = [e \in Engines |-> NoInstance]
    /\ constructed = [e \in Engines |-> 0]
    /\ audio_files = {}
    /\ calls = 0
    /\ call = NoCall
    /\ outcome = NoOutcome

ServicesIdle == RenderIdle /\ RequestsIdle /\ CleanupIdle /\ EngineIdle

(***************************************************************************)
(* Initial states: the arguments of one call                               *)
(***************************************************************************)
Init ==
    /\ text \in Texts
    /\ duration \in Durations
    /\ lead_time \in LeadTimes
    /\ overlap_duration \in OverlapDurations
    /\ pc = "ready"
    /\ probe = "none"
    /\ char_timings = <<>>
    /\ analysis = NoAnalysis
    /\ raised = "none"
    /\ width = 0
    /\ padding = 0
    /\ font = [c \in Alphabet |-> 1]
    /\ lines = <<>>
    /\ ServicesIdle

\* a direct call of the estimator with explicit arguments
CalculateCharacterTimings ==
    /\ pc = "ready"
    /\ LET ts == calculate_character_timings(text, duration, lead_time, overlap_duration)
       IN  IF AllTimingsValid(ts)
           THEN char_timings' = ts /\ raised' = "none"
           ELSE char_timings' = <<>> /\ raised' = "ValidationError"
    /\ pc' = "calculated"
    /\ UNCHANGED <<text, duration, lead_time, overlap_duration, probe, analysis, wrapVars>>
    /\ UNCHANGED serviceVars

(***************************************************************************)
(* TTSService.analyze_audio_timing and _create_fallback_timing             *)
(***************************************************************************)
\* AudioAnalysis(duration=..., words_per_second=..., lead_time=0.3, overlap_duration=0.4);
\* valid records whether the pydantic constraints (duration gt 0, the rest ge 0) hold
AudioAnalysis(dur, wps) ==
    [duration |-> dur, words_per_second |-> wps,
     lead_time |-> DefaultLeadTime, overlap_duration |-> DefaultOverlapDuration,
     valid |-> RLt(Zero, dur) /\ RLe(Zero, wps)]

\* len(text.split()) / duration if duration > 0 else 0
WordsPerSecond(s, dur) ==
    IF RLt(Zero, dur) THEN RDiv(RInt(Len(Split(s))), dur) ELSE Zero

\* duration = len(text) * 0.1
FallbackDuration(s) == Tenths(Len(s))

\* char_duration = duration / len(text) if len(text) > 0 else 0.1
FallbackCharDuration(s) ==
    IF Len(s) > 0 THEN RDiv(FallbackDuration(s), RInt(Len(s))) ELSE Tenths(1)

\* variant: lead compensation on the start, as the except branch of app.py does
FallbackTimings_Lead(s) ==
    [i \in 1 .. Len(s) |->
        [char |-> s[i],
         start_time |-> RMax(Zero, RSub(Tenths(i), DefaultLeadTime)),
         end_time |-> Tenths(i + 1), position |-> i - 1]]

\* start_time=i * char_duration, end_time=(i + 1) * char_duration (i counted from 0)
FallbackTimings(s) ==
    [i \in 1 .. Len(s) |->
        CharacterTiming(s[i], RMul(RInt(i - 1), FallbackCharDuration(s)),
                        RMul(RInt(i), FallbackCharDuration(s)), i)]

\* outcome of _create_fallback_timing: the timings, the analysis, the exception
create_fallback_timing(s) ==
    LET ts == FallbackTimings(s)
        a  == AudioAnalysis(FallbackDuration(s), WordsPerSecond(s, FallbackDuration(s)))
    IN  IF AllTimingsValid(ts) /\ a.valid
        THEN [timings |-> ts, analysis |-> a, raised |-> "none"]
        ELSE [timings |-> <<>>, analysis |-> NoAnalysis, raised |-> "ValidationError"]

\* outcome of analyze_audio_timing; p is the outcome of loading and probing the audio
analyze_audio_timing(s, dur, p) ==
    LET ts == calculate_character_timings(s, dur, DefaultLeadTime, DefaultOverlapDuration)
        a  == AudioAnalysis(dur, WordsPerSecond(s, dur))
    IN  IF p = "ok" /\ AllTimingsValid(ts) /\ a.valid
        THEN [timings |-> ts, analysis |-> a, raised |-> "none"]
        ELSE create_fallback_timing(s)

AnalyzeAudioTiming ==
    /\ pc = "ready"
    /\ RLe(Zero, duration)                  \* an audio file has no negative duration
    /\ \E p \in {"ok", "fail"} :
          /\ probe' = p
          /\ LET r == analyze_audio_timing(text, duration, p)
             IN  /\ char_timings' = r.timings
                 /\ analysis' = r.analysis
                 /\ raised' = r.raised
    /\ pc' = "analyzed"
    /\ UNCHANGED <<text, duration, lead_time, overlap_duration, wrapVars>>
    /\ UNCHANGED serviceVars

(***************************************************************************)
(* analyze_audio_timing of PurrfectBytesWeb/app.py (the single-file app)   *)
(***************************************************************************)
\* ... if chars_per_second > 0 else max(0, i * 0.1 - lead_time)
AppStartTime(current_pos, cps, lead, i) ==
    IF RLt(Zero, cps) THEN RMax(Zero, RSub(RDiv(current_pos, cps), lead))
    ELSE RMax(Zero, RSub(Tenths(i - 1), lead))

\* ... if chars_per_second > 0 else (i + 1) * 0.1
AppEndTime(current_pos, w, cps, overlap, i) ==
    IF RLt(Zero, cps) THEN RAdd(RDiv(RAdd(current_pos, w), cps), overlap)
    ELSE Tenths(i)

RECURSIVE AppTimingLoop(_, _, _, _, _, _)
AppTimingLoop(s, i, current_pos, cps, lead, overlap) ==
    IF i > Len(s) THEN <<>>
    ELSE LET w == CharWeight(s[i])
         IN  <<CharacterTiming(s[i], AppStartTime(current_pos, cps, lead, i),
                               AppEndTime(current_pos, w, cps, overlap, i), i)>>
             \o AppTimingLoop(s, i + 1, RAdd(current_pos, w), cps, lead, overlap)

\* the except branch: linear timing with lead compensation, from the local `duration`
AppFallbackTimings(s, dur) ==
    LET char_duration == IF Len(s) > 0 THEN RDiv(dur, RInt(Len(s))) ELSE Tenths(1)
    IN  [i \in 1 .. Len(s) |->
            CharacterTiming(s[i],
                            RMax(Zero, RSub(RMul(RInt(i - 1), char_duration), DefaultLeadTime)),
                            RMul(RInt(i), char_duration), i)]

\* outcome of app.analyze_audio_timing.  When librosa fails, `duration` was never
\* assigned: the except branch reads it (unless len(text) = 0) and raises
\* UnboundLocalError.  When duration = 0 the division char_count / duration raises
\* ZeroDivisionError inside the try, and the except branch runs with duration bound.
app_analyze_audio_timing(s, dur, p) ==
    IF p = "fail"
    THEN IF Len(s) > 0
         THEN [timings |-> <<>>, raised |-> "UnboundLocalError"]
         ELSE [timings |-> <<>>, raised |-> "none"]
    ELSE IF NonSpaceCount(s) = 0
         THEN [timings |-> <<>>, raised |-> "none"]
         ELSE IF dur = Zero
              THEN [timings |-> AppFallbackTimings(s, dur), raised |-> "none"]
              ELSE [timings |-> AppTimingLoop(s, 1, Zero, RDiv(RInt(NonSpaceCount(s)), dur),
                                              DefaultLeadTime, DefaultOverlapDuration),
                    raised |-> "none"]

AppAnalyzeAudioTiming ==
    /\ pc = "ready"
    /\ RLe(Zero, duration)                  \* an audio file has no negative duration
    /\ \E p \in {"ok", "fail"} :
          /\ probe' = p
          /\ LET r == app_analyze_audio_timing(text, duration, p)
             IN  /\ char_timings' = r.timings
                 /\ raised' = r.raised
    /\ pc' = "app_analyzed"
    /\ UNCHANGED <<text, duration, lead_time, overlap_duration, analysis, wrapVars>>
    /\ UNCHANGED serviceVars

Next ==
    \/ CalculateCharacterTimings
    \/ AnalyzeAudioTiming
    \/ AppAnalyzeAudioTiming

Spec == Init /\ [][Next]_vars

(***************************************************************************)
(* Text segmentation: utils/text_utils.py                                  *)
(***************************************************************************)
CJK_UNICODE_RANGES ==
    <<<<19968, 40959>>,    \* 0x4E00 - 0x9FFF  CJK Unified Ideographs
      <<13312, 19903>>,    \* 0x3400 - 0x4DBF  CJK Extension A
      <<12352, 12447>>,    \* 0x3040 - 0x309F  Hiragana
      <<12448, 12543>>,    \* 0x30A0 - 0x30FF  Katakana
      <<44032, 55215>>>>   \* 0xAC00 - 0xD7AF  Hangul

is_cjk_character(c) ==
    \E r \in 1 .. Len(CJK_UNICODE_RANGES) :
        CJK_UNICODE_RANGES[r][1] <= c /\ c <= CJK_UNICODE_RANGES[r][2]

has_cjk_characters(s) == \E i \in 1 .. Len(s) : is_cjk_character(s[i])

\* bbox = draw.textbbox((0, 0), s, font=font); bbox[2] - bbox[0]:
\* the measured width of a string is the sum of the widths of its characters
RECURSIVE TextWidth(_, _)
TextWidth(s, f) == IF s = <<>> THEN 0 ELSE f[Head(s)] + TextWidth(Tail(s), f)

\* ' '.join(words)
RECURSIVE Join(_)
Join(words) ==
    IF words = <<>> THEN <<>>
    ELSE IF Len(words) = 1 THEN words[1]
    ELSE words[1] \o <<SPACE>> \o Join(Tail(words))

\* variant: the full line is not kept when a character starts a new line
WrapCjkStep_NoFlush(st, char, max_width, f) ==
    LET test_line == Append(st.current_line, char)
    IN  IF TextWidth(test_line, f) <= max_width
        THEN [lines |-> st.lines, current_line |-> test_line]
        ELSE [lines |-> st.lines, current_line |-> <<char>>]

\* one iteration of the loop of _wrap_cjk_text
WrapCjkStep(st, char, max_width, f) ==
    LET test_line == Append(st.current_line, char)
    IN  IF TextWidth(test_line, f) <= max_width
        THEN [lines |-> st.lines, current_line |-> test_line]
        ELSE [lines |-> IF st.current_line # <<>>
                        THEN Append(st.lines, st.current_line) ELSE st.lines,
              current_line |-> <<char>>]

RECURSIVE WrapCjkLoop(_, _, _, _, _)
WrapCjkLoop(s, i, st, max_width, f) ==
    IF i > Len(s) THEN st
    ELSE WrapCjkLoop(s, i + 1, WrapCjkStep(st, s[i], max_width, f), max_width, f)

wrap_cjk_text(s, max_width, f) ==
    LET st == WrapCjkLoop(s, 1, [lines |-> <<>>, current_line |-> <<>>], max_width, f)
    IN  IF st.current_line # <<>> THEN Append(st.lines, st.current_line) ELSE st.lines

\* the inner loop of _wrap_latin_text: an over-wide word split by characters;
\* st.lines are the outer lines, st.char_line the piece being filled
RECURSIVE SplitLongWord(_, _, _, _, _)
SplitLongWord(word, i, st, max_width, f) ==
    IF i > Len(word) THEN st
    ELSE LET test_char_line == Append(st.char_line, word[i])
         IN  SplitLongWord(word, i + 1,
                 IF TextWidth(test_char_line, f) <= max_width
                 THEN [lines |-> st.lines, char_line |-> test_char_line]
                 ELSE [lines |-> IF st.char_line # <<>>
                                 THEN Append(st.lines, st.char_line) ELSE st.lines,
                       char_line |-> <<word[i]>>],
                 max_width, f)

\* the lines and the current line after a word was split by characters
WordSplitResult(st, word, max_width, f) ==
    LET r == SplitLongWord(word, 1, [lines |-> st.lines, char_line |-> <<>>], max_width, f)
    IN  [lines |-> r.lines,
         current_line |-> IF r.char_line # <<>> THEN <<r.char_line>> ELSE <<>>]

\* variant: a word that does not fit is split by characters even when the current
\* line is not empty
WrapLatinStep_AlwaysSplit(st, word, max_width, f) ==
    IF TextWidth(Join(Append(st.current_line, word)), f) <= max_width
    THEN [lines |-> st.lines, current_line |-> Append(st.current_line, word)]
    ELSE WordSplitResult(st, word, max_width, f)

\* one iteration of the word loop of _wrap_latin_text; current_line is a list of words
WrapLatinStep(st, word, max_width, f) ==
    LET test_line == Join(Append(st.current_line, word))
    IN  IF TextWidth(test_line, f) <= max_width
        THEN [lines |-> st.lines, current_line |-> Append(st.current_line, word)]
        ELSE IF st.current_line # <<>>
             THEN [lines |-> Append(st.lines, Join(st.current_line)),
                   current_line |-> <<word>>]
             ELSE WordSplitResult(st, word, max_width, f)

RECURSIVE WrapLatinLoop(_, _, _, _, _)
WrapLatinLoop(words, i, st, max_width, f) ==
    IF i > Len(words) THEN st
    ELSE WrapLatinLoop(words, i + 1, WrapLatinStep(st, words[i], max_width, f),
                       max_width, f)

wrap_latin_text(s, max_width, f) ==
    LET st == WrapLatinLoop(Split(s), 1, [lines |-> <<>>, current_line |-> <<>>],
                            max_width, f)
    IN  IF st.current_line # <<>> THEN Append(st.lines, Join(st.current_line))
        ELSE st.lines

wrap_text_for_video(s, w, f, pad) ==
    IF s = <<>> THEN << <<>> >>
    ELSE LET max_width == w - (pad * 2)
         IN  IF has_cjk_characters(s) THEN wrap_cjk_text(s, max_width, f)
             ELSE wrap_latin_text(s, max_width, f)

\* wrap_text_for_video of PurrfectBytesWeb/app.py: the same two loops inline,
\* without the guard for the empty text
app_wrap_text_for_video(s, w, f, pad) ==
    LET max_width == w - (pad * 2)
    IN  IF has_cjk_characters(s) THEN wrap_cjk_text(s, max_width, f)
        ELSE wrap_latin_text(s, max_width, f)

Fonts == [Alphabet -> 1 .. MaxCharWidth]
CanvasWidths == 1 .. MaxCanvasWidth
Paddings == {0, 1}

InitWrap ==
    /\ text \in SeqsUpTo(Alphabet, MaxTextLen)
    /\ width \in CanvasWidths
    /\ padding \in Paddings
    /\ font \in Fonts
    /\ lines = <<>>
    /\ pc = "ready"
    /\ duration = Zero
    /\ lead_time = DefaultLeadTime
    /\ overlap_duration = DefaultOverlapDuration
    /\ probe = "none"
    /\ char_timings = <<>>
    /\ analysis = NoAnalysis
    /\ raised = "none"
    /\ ServicesIdle

WrapTextForVideo ==
    /\ pc = "ready"
    /\ lines' = wrap_text_for_video(text, width, font, padding)
    /\ pc' = "wrapped"
    /\ UNCHANGED <<timingVars, width, padding, font, serviceVars>>

AppWrapTextForVideo ==
    /\ pc = "ready"
    /\ lines' = app_wrap_text_for_video(text, width, font, padding)
    /\ pc' = "app_wrapped"
    /\ UNCHANGED <<timingVars, width, padding, font, serviceVars>>

NextWrap ==
    \/ WrapTextForVideo
    \/ AppWrapTextForVideo

SpecWrap == InitWrap /\ [][NextWrap]_vars

(***************************************************************************)
(* The frame renderer: services/video_service.py and app.py                *)
(***************************************************************************)
MaxFrameTenths == 16

\* the times make_frame is called with, in tenths of a second
FrameTimes == {Tenths(k) : k \in 0 .. MaxFrameTenths}
RenderDurations == {Tenths(5), Tenths(10)}
RenderWidths == {2, MaxCanvasWidth}

\* {timing.position: timing for timing in character_timings}
create_timing_map(ts) ==
    [p \in {ts[k].position : k \in 1 .. Len(ts)} |->
        ts[CHOOSE k \in 1 .. Len(ts) :
               /\ ts[k].position = p
               /\ \A j \in (k + 1) .. Len(ts) : ts[j].position # p]]

\* if timing.start_time < t < timing.end_time (variant)
get_active_characters_Exclusive(tt, timing_map) ==
    {pos \in DOMAIN timing_map :
        RLt(timing_map[pos].start_time, tt) /\ RLt(tt, timing_map[pos].end_time)}

\* if timing.start_time <= t <= timing.end_time: active_chars.add(pos)
get_active_characters(tt, timing_map) ==
    {pos \in DOMAIN timing_map :
        RLe(timing_map[pos].start_time, tt) /\ RLe(tt, timing_map[pos].end_time)}

\* the drawing calls for one character: draw.rectangle if active, then draw.text
DrawChar(char, char_position, active) ==
    [char |-> char, char_position |-> char_position,
     rectangle |-> char_position \in active, glyph |-> TRUE]

\* the loops over lines and characters; char_position counts the drawn characters
RECURSIVE draw_text_with_highlighting(_, _, _)
draw_text_with_highlighting(ls, char_position, active) ==
    IF ls = <<>> THEN <<>>
    ELSE IF Head(ls) = <<>>
         THEN draw_text_with_highlighting(Tail(ls), char_position, active)
         ELSE <<DrawChar(Head(Head(ls)), char_position, active)>>
              \o draw_text_with_highlighting(<<Tail(Head(ls))>> \o Tail(ls),
                                             char_position + 1, active)

\* _generate_frame: the active set and the drawing calls of the frame at time tt
generate_frame(tt, ls, timing_map) ==
    LET active == get_active_characters(tt, timing_map)
    IN  [active_chars |-> active, frame |-> draw_text_with_highlighting(ls, 0, active)]

\* app.py make_frame: if timing['start_time'] <= t <= timing['end_time']
AppActiveChars(tt, ts) ==
    {ts[k].position : k \in {j \in 1 .. Len(ts) :
        RLe(ts[j].start_time, tt) /\ RLe(tt, ts[j].end_time)}}

\* app.py make_frame: draw.rectangle if active;
\* draw.text if char != ' ' or not is_active
AppDrawChar(char, char_position, active) ==
    [char |-> char, char_position |-> char_position,
     rectangle |-> char_position \in active,
     glyph |-> (char # SPACE \/ ~(char_position \in active))]

RECURSIVE AppDrawLines(_, _, _)
AppDrawLines(ls, char_position, active) ==
    IF ls = <<>> THEN <<>>
    ELSE IF Head(ls) = <<>>
         THEN AppDrawLines(Tail(ls), char_position, active)
         ELSE <<AppDrawChar(Head(Head(ls)), char_position, active)>>
              \o AppDrawLines(<<Tail(Head(ls))>> \o Tail(ls), char_position + 1, active)

make_frame(tt, ls, ts) ==
    LET active == AppActiveChars(tt, ts)
    IN  [active_chars |-> active, frame |-> AppDrawLines(ls, 0, active)]

InitRender ==
    /\ text \in SeqsUpTo(Alphabet, MaxTextLen)
    /\ duration \in RenderDurations
    /\ probe \in {"ok", "fail"}
    /\ width \in RenderWidths
    /\ padding = 0
    /\ font = [c \in Alphabet |-> 1]
    /\ lines = <<>>
    /\ pc = "ready"
    /\ lead_time = DefaultLeadTime
    /\ overlap_duration = DefaultOverlapDuration
    /\ char_timings = <<>>
    /\ analysis = NoAnalysis
    /\ raised = "none"
    /\ ServicesIdle

\* tts_service.analyze_audio_timing, then VideoService.generate_video up to the
\* creation of the clip: the lines and the timings make_frame closes over
GenerateVideo ==
    /\ pc = "ready"
    /\ LET r == analyze_audio_timing(text, duration, probe)
       IN  /\ char_timings' = r.timings
           /\ analysis' = r.analysis
           /\ raised' = r.raised
           /\ IF r.raised = "none"
              THEN /\ lines' = wrap_text_for_video(text, width, font, padding)
                   /\ pc' = "rendering"
              ELSE /\ lines' = lines
                   /\ pc' = "failed"
    /\ UNCHANGED <<text, duration, lead_time, overlap_duration, probe,
                   width, padding, font, renderVars, requestVars, cleanupVars,
                   engineVars>>

\* one call of make_frame(t) by the clip writer
GenerateFrame ==
    /\ pc \in {"rendering", "frame"}
    /\ \E tt \in FrameTimes :
          LET r == generate_frame(tt, lines, create_timing_map(char_timings))
          IN  /\ frame_time' = tt
              /\ active_chars' = r.active_chars
              /\ frame' = r.frame
    /\ pc' = "frame"
    /\ UNCHANGED <<timingVars, wrapVars, requestVars, cleanupVars, engineVars>>

\* app.py create_character_animated_video up to the creation of the clip
CreateCharacterAnimatedVideo ==
    /\ pc = "ready"
    /\ LET r == app_analyze_audio_timing(text, duration, probe)
       IN  /\ char_timings' = r.timings
           /\ raised' = r.raised
           /\ IF r.raised = "none"
              THEN /\ lines' = app_wrap_text_for_video(text, width, font, padding)
                   /\ pc' = "app_rendering"
              ELSE /\ lines' = lines
                   /\ pc' = "app_failed"
    /\ UNCHANGED <<text, duration, lead_time, overlap_duration, probe, analysis,
                   width, padding, font, renderVars, requestVars, cleanupVars,
                   engineVars>>

\* one call of app.py make_frame(t) by the clip writer
MakeFrame ==
    /\ pc \in {"app_rendering", "app_frame"}
    /\ \E tt \in FrameTimes :
          LET r == make_frame(tt, lines, char_timings)
          IN  /\ frame_time' = tt
              /\ active_chars' = r.active_chars
              /\ frame' = r.frame
    /\ pc' = "app_frame"
    /\ UNCHANGED <<timingVars, wrapVars, requestVars, cleanupVars, engineVars>>

NextRender ==
    \/ GenerateVideo
    \/ GenerateFrame
    \/ CreateCharacterAnimatedVideo
    \/ MakeFrame

SpecRender == InitRender /\ [][NextRender]_vars

(***************************************************************************)
(* Video requests: api/routes.py convert_to_video and                      *)
(* repeat_video_endpoint, services/video_service.py generate_and_repeat    *)
(***************************************************************************)
Kinds == {"convert_to_video", "repeat_video_endpoint", "generate_and_repeat"}
FontSizes == {MinFontSize - 1, DefaultFontSize, MaxFontSize + 1}
RepetitionCounts == {MinRepetitions - 1, 1, 2, MaxRepetitions + 1}

\* the arguments of a request; generate_and_repeat takes no font size and is
\* handed the text and the audio file of an earlier successful synthesis
RequestInputs ==
    {q \in [kind : Kinds, text_ok : BOOLEAN, font_size : FontSizes,
            repetitions : RepetitionCounts] :
        q.kind = "generate_and_repeat" => (q.text_ok /\ q.font_size = DefaultFontSize)}

\* arguments that every handler accepts
ValidInputs ==
    {q \in RequestInputs :
        /\ q.text_ok
        /\ q.font_size = DefaultFontSize
        /\ q.repetitions \in {1, 2}}

\* the validation that raises: HTTPException(400) in repeat_video_endpoint,
\* ValueError in generate_and_repeat, nothing in convert_to_video
Rejects(q) ==
    CASE q.kind = "repeat_video_endpoint" ->
             \/ ~q.text_ok
             \/ q.repetitions < MinRepetitions
             \/ q.repetitions > MaxRepetitions
      [] q.kind = "generate_and_repeat" -> q.repetitions < 1
      [] OTHER -> FALSE

\* if font_size < 16 or font_size > 200: font_size = 48  (both routes)
ValidatedFontSize(q) ==
    IF q.kind # "generate_and_repeat"
          /\ (q.font_size < MinFontSize \/ q.font_size > MaxFontSize)
    THEN DefaultFontSize
    ELSE q.font_size

\* if repetitions < 1 or repetitions > 100: repetitions = 1  (convert_to_video)
ValidatedRepetitions(q) ==
    IF q.kind = "convert_to_video"
          /\ (q.repetitions < MinRepetitions \/ q.repetitions > MaxRepetitions)
    THEN 1
    ELSE q.repetitions

\* raise HTTPException(status_code=500, ...) / raise Exception(...)
ErrorResult ==
    [status |-> "error", filename |-> NoPath, duration_factor |-> 0,
     message_repetitions |-> 0]

\* what the handler returns.  duration_factor is the reported duration as a multiple
\* of the duration of the single audio (0: no duration reported);
\* message_repetitions is the N of "repeated N times" (0: the message has no such
\* words).  generate_and_repeat returns only the path.
SuccessResult(q, reps, path, concatenated) ==
    CASE q.kind = "convert_to_video" ->
             [status |-> "success", filename |-> path,
              duration_factor |-> IF concatenated THEN reps ELSE 1,
              message_repetitions |-> IF reps > 1 THEN reps ELSE 0]
      [] q.kind = "repeat_video_endpoint" ->
             [status |-> "success", filename |-> path,
              duration_factor |-> reps,
              message_repetitions |-> reps]
      [] OTHER ->
             [status |-> "success", filename |-> path,
              duration_factor |-> 0, message_repetitions |-> 0]

\* clips = [single_clip] * repetitions, without the repetition (variant)
ConcatenatedClips_Single(reps) == Complete(1)

\* clips = [single_clip] * repetitions; concatenate_videoclips(clips); write_videofile
ConcatenatedClips(reps) == Complete(reps)

\* the disk after unlinking the files in gone
Unlink(d, gone) == [f \in Paths |-> IF f \in gone THEN Absent ELSE d[f]]

\* repeat_video_endpoint removes the single audio before it returns
AudioAfterSuccess(q, r) ==
    IF q.kind = "repeat_video_endpoint" THEN {AudioPath(r)} ELSE {}

\* the cleanup of the except clauses after the renderer raised: generate_video
\* unlinks its video_path; convert_to_video unlinks audio_path and video_path (still
\* None); repeat_video_endpoint looks for a local named audio_path, which it has not
RenderFailureCleanup(q, r) ==
    CASE q.kind = "generate_and_repeat" -> {SingleVideoPath(r)}
      [] q.kind = "convert_to_video" -> {AudioPath(r)}
      [] OTHER -> {}

\* the validation at the head of the handler
Validate(r) ==
    /\ rpc[r] = "received"
    /\ LET q == req[r]
       IN  IF Rejects(q)
           THEN /\ result' = [result EXCEPT ![r] = ErrorResult]
                /\ rpc' = [rpc EXCEPT ![r] = "done"]
                /\ UNCHANGED <<font_size, repetitions, audio_path>>
           ELSE /\ font_size' = [font_size EXCEPT ![r] = ValidatedFontSize(q)]
                /\ repetitions' = [repetitions EXCEPT ![r] = ValidatedRepetitions(q)]
                /\ IF q.kind = "generate_and_repeat"
                   THEN /\ audio_path' = [audio_path EXCEPT ![r] = AudioPath(r)]
                        /\ rpc' = [rpc EXCEPT ![r] = "synthesized"]
                   ELSE /\ UNCHANGED audio_path
                        /\ rpc' = [rpc EXCEPT ![r] = "validated"]
                /\ UNCHANGED result
    /\ UNCHANGED <<req, single_video_path, video_path, disk, writing, created,
                   synth_calls, render_calls, concat_failed>>
    /\ UNCHANGED <<timingVars, wrapVars, renderVars, cleanupVars, engineVars, pc>>

\* tts_service.generate_audio (and analyze_audio_timing, which does not raise for a
\* text that has a non-space character)
GenerateAudio(r) ==
    /\ rpc[r] = "validated"
    /\ \E ok \in BOOLEAN :
          IF ok /\ req[r].text_ok
          THEN /\ audio_path' = [audio_path EXCEPT ![r] = AudioPath(r)]
               /\ disk' = [disk EXCEPT ![AudioPath(r)] = Complete(1)]
               /\ created' = [created EXCEPT ![r] = @ \cup {AudioPath(r)}]
               /\ synth_calls' = [synth_calls EXCEPT ![r] = @ + 1]
               /\ rpc' = [rpc EXCEPT ![r] = "synthesized"]
               /\ UNCHANGED result
          ELSE /\ synth_calls' = [synth_calls EXCEPT ![r] =
                                     IF req[r].text_ok THEN @ + 1 ELSE @]
               /\ result' = [result EXCEPT ![r] = ErrorResult]
               /\ rpc' = [rpc EXCEPT ![r] = "done"]
               /\ UNCHANGED <<audio_path, disk, created>>
    /\ UNCHANGED <<req, font_size, repetitions, single_video_path, video_path,
                   writing, render_calls, concat_failed>>
    /\ UNCHANGED <<timingVars, wrapVars, renderVars, cleanupVars, engineVars, pc>>

\* create_video_with_text / generate_video starts write_videofile on the single video
BeginRender(r) ==
    /\ rpc[r] = "synthesized"
    /\ single_video_path' = [single_video_path EXCEPT ![r] = SingleVideoPath(r)]
    /\ render_calls' = [render_calls EXCEPT ![r] = @ + 1]
    /\ writing' = [writing EXCEPT ![r] = {SingleVideoPath(r), TempAudioFile}]
    /\ created' = [created EXCEPT ![r] = @ \cup {SingleVideoPath(r), TempAudioFile}]
    /\ disk' = [f \in Paths |->
                   IF f \in {SingleVideoPath(r), TempAudioFile} THEN Partial ELSE disk[f]]
    /\ rpc' = [rpc EXCEPT ![r] = "rendering"]
    /\ UNCHANGED <<req, font_size, repetitions, audio_path, video_path, result,
                   synth_calls, concat_failed>>
    /\ UNCHANGED <<timingVars, wrapVars, renderVars, cleanupVars, engineVars, pc>>

\* write_videofile of the single video returns or raises; a write that raises
\* leaves any of the files it was writing behind
EndRender(r) ==
    /\ rpc[r] = "rendering"
    /\ \E ok \in BOOLEAN, left \in SUBSET writing[r] :
          LET q == req[r]
          IN  IF ok
              THEN /\ left = {}
                   /\ LET d == [Unlink(disk, {TempAudioFile})
                                   EXCEPT ![SingleVideoPath(r)] = Complete(1)]
                      IN  IF repetitions[r] > 1
                          THEN /\ disk' = d
                               /\ rpc' = [rpc EXCEPT ![r] = "rendered"]
                               /\ UNCHANGED <<video_path, result>>
                          ELSE /\ disk' = Unlink(d, AudioAfterSuccess(q, r))
                               /\ video_path' = [video_path EXCEPT ![r] = SingleVideoPath(r)]
                               /\ result' = [result EXCEPT ![r] =
                                     SuccessResult(q, repetitions[r], SingleVideoPath(r), FALSE)]
                               /\ rpc' = [rpc EXCEPT ![r] = "done"]
              ELSE /\ disk' = Unlink(Unlink(disk, writing[r] \ left),
                                     RenderFailureCleanup(q, r))
                   /\ result' = [result EXCEPT ![r] = ErrorResult]
                   /\ rpc' = [rpc EXCEPT ![r] = "done"]
                   /\ UNCHANGED video_path
    /\ writing' = [writing EXCEPT ![r] = {}]
    /\ UNCHANGED <<req, font_size, repetitions, audio_path, single_video_path,
                   created, synth_calls, render_calls, concat_failed>>
    /\ UNCHANGED <<timingVars, wrapVars, renderVars, cleanupVars, engineVars, pc>>

\* repetitions > 1: VideoFileClip, [single_clip] * repetitions, concatenate_videoclips
\* and the start of write_videofile on the repeated video; or one of them raises and
\* the handler goes on with the single video
BeginConcat(r) ==
    /\ rpc[r] = "rendered"
    /\ \E ok \in BOOLEAN :
          IF ok
          THEN /\ video_path' = [video_path EXCEPT ![r] = RepeatVideoPath(r)]
               /\ writing' = [writing EXCEPT ![r] = {RepeatVideoPath(r), TempAudioFile}]
               /\ created' = [created EXCEPT ![r] =
                                 @ \cup {RepeatVideoPath(r), TempAudioFile}]
               /\ disk' = [f \in Paths |->
                              IF f \in {RepeatVideoPath(r), TempAudioFile}
                              THEN Partial ELSE disk[f]]
               /\ rpc' = [rpc EXCEPT ![r] = "concatenating"]
               /\ UNCHANGED <<result, concat_failed>>
          ELSE /\ concat_failed' = [concat_failed EXCEPT ![r] = TRUE]
               /\ video_path' = [video_path EXCEPT ![r] = SingleVideoPath(r)]
               /\ result' = [result EXCEPT ![r] =
                     SuccessResult(req[r], repetitions[r], SingleVideoPath(r), FALSE)]
               /\ disk' = Unlink(disk, AudioAfterSuccess(req[r], r))
               /\ rpc' = [rpc EXCEPT ![r] = "done"]
               /\ UNCHANGED <<writing, created>>
    /\ UNCHANGED <<req, font_size, repetitions, audio_path, single_video_path,
                   synth_calls, render_calls>>
    /\ UNCHANGED <<timingVars, wrapVars, renderVars, cleanupVars, engineVars, pc>>

\* write_videofile of the repeated video returns (the single video is unlinked) or
\* raises (the handler goes on with the single video)
EndConcat(r) ==
    /\ rpc[r] = "concatenating"
    /\ \E ok \in BOOLEAN, left \in SUBSET writing[r] :
          LET q == req[r]
          IN  IF ok
              THEN /\ left = {}
                   /\ disk' = [Unlink(disk, {TempAudioFile, SingleVideoPath(r)}
                                                \cup AudioAfterSuccess(q, r))
                                  EXCEPT ![RepeatVideoPath(r)] =
                                      ConcatenatedClips(repetitions[r])]
                   /\ result' = [result EXCEPT ![r] =
                         SuccessResult(q, repetitions[r], RepeatVideoPath(r), TRUE)]
                   /\ UNCHANGED <<video_path, concat_failed>>
              ELSE /\ disk' = Unlink(disk, (writing[r] \ left) \cup AudioAfterSuccess(q, r))
                   /\ concat_failed' = [concat_failed EXCEPT ![r] = TRUE]
                   /\ video_path' = [video_path EXCEPT ![r] = SingleVideoPath(r)]
                   /\ result' = [result EXCEPT ![r] =
                         SuccessResult(q, repetitions[r], SingleVideoPath(r), FALSE)]
    /\ rpc' = [rpc EXCEPT ![r] = "done"]
    /\ writing' = [writing EXCEPT ![r] = {}]
    /\ UNCHANGED <<req, font_size, repetitions, audio_path, single_video_path,
                   created, synth_calls, render_calls>>
    /\ UNCHANGED <<timingVars, wrapVars, renderVars, cleanupVars, engineVars, pc>>

\* nothing of the estimator, the wrapper or the renderer is running
EstimatorIdle ==
    /\ text = <<>>
    /\ duration = Zero
    /\ lead_time = DefaultLeadTime
    /\ overlap_duration = DefaultOverlapDuration
    /\ probe = "none"
    /\ char_timings = <<>>
    /\ analysis = NoAnalysis
    /\ raised = "none"
    /\ width = 0
    /\ padding = 0
    /\ font = [c \in Alphabet |-> 1]
    /\ lines = <<>>
    /\ RenderIdle

\* the requests in rs have been received, with the arguments qs[r]
Received(rs, qs) ==
    /\ req = [r \in Requests |-> IF r \in rs THEN qs[r] ELSE NoRequest]
    /\ rpc = [r \in Requests |-> IF r \in rs THEN "received" ELSE "off"]
    /\ font_size = [r \in Requests |-> req[r].font_size]
    /\ repetitions = [r \in Requests |-> req[r].repetitions]
    /\ audio_path = [r \in Requests |-> NoPath]
    /\ single_video_path = [r \in Requests |-> NoPath]
    /\ video_path = [r \in Requests |-> NoPath]
    /\ result = [r \in Requests |-> NoResult]
    /\ disk = [f \in Paths |->
                  IF \E r \in rs : req[r].kind = "generate_and_repeat" /\ f = AudioPath(r)
                  THEN Complete(1) ELSE Absent]
    /\ writing = [r \in Requests |-> {}]
    /\ created = [r \in Requests |-> {}]
    /\ synth_calls = [r \in Requests |-> 0]
    /\ render_calls = [r \in Requests |-> 0]
    /\ concat_failed = [r \in Requests |-> FALSE]

\* one request, any arguments
InitRequest ==
    /\ pc = "serving"
    /\ EstimatorIdle
    /\ CleanupIdle
    /\ EngineIdle
    /\ \E q \in RequestInputs : Received({1}, [r \in Requests |-> q])

NextRequest ==
    \E r \in Requests :
        \/ Validate(r)
        \/ GenerateAudio(r)
        \/ BeginRender(r)
        \/ EndRender(r)
        \/ BeginConcat(r)
        \/ EndConcat(r)

SpecRequest == InitRequest /\ [][NextRequest]_vars

\* NumRequests requests served at the same time, each with valid arguments
InitConcurrent ==
    /\ pc = "serving"
    /\ EstimatorIdle
    /\ CleanupIdle
    /\ EngineIdle
    /\ \E qs \in [Requests -> ValidInputs] : Received(Requests, qs)

SpecConcurrent == InitConcurrent /\ [][NextRequest]_vars

(***************************************************************************)
(* The sweep of aged files: cleanup_old_files                              *)
(***************************************************************************)
MaxAgeHours == 24
SecondsPerHour == 3600

\* the ages of the files, in hours: fresh, exactly max_age_hours old, older
Ages == {1, MaxAgeHours, MaxAgeHours + 1}

\* the files of a set, as the sequence the glob yields them in
RECURSIVE Listing(_)
Listing(fs) ==
    IF fs = {} THEN <<>>
    ELSE LET f == CHOOSE x \in fs : \A y \in fs : x <= y
         IN  <<f>> \o Listing(fs \ {f})

\* current_time - video_file.stat().st_mtime > max_age_seconds
IsAged(hours, max_age_hours) ==
    hours * SecondsPerHour > max_age_hours * SecondsPerHour

\* try: unlink(); removed_count += 1 -- without the except clause (variant)
TryUnlink_Uncaught(is_present, count) ==
    IF is_present
    THEN [removed_count |-> count + 1, unlinked |-> TRUE, raised |-> "none"]
    ELSE [removed_count |-> count, unlinked |-> FALSE, raised |-> "FileNotFoundError"]

\* try: unlink(); removed_count += 1
\* except OSError: pass
TryUnlink(is_present, count) ==
    IF is_present
    THEN [removed_count |-> count + 1, unlinked |-> TRUE, raised |-> "none"]
    ELSE [removed_count |-> count, unlinked |-> FALSE, raised |-> "none"]

\* the loop goes to the next listed file, or the function returns
NextFile ==
    IF sweep_idx < Len(glob_list)
    THEN sweep_idx' = sweep_idx + 1 /\ sweep_pc' = "stat"
    ELSE sweep_idx' = sweep_idx /\ sweep_pc' = "returned"

InitCleanup ==
    /\ pc = "sweeping"
    /\ EstimatorIdle
    /\ RequestsIdle
    /\ EngineIdle
    /\ present \in SUBSET Files
    /\ age_hours \in [Files -> Ages]
    /\ glob_list = <<>>
    /\ sweep_pc = "idle"
    /\ sweep_idx = 1
    /\ removed_count = 0
    /\ sweep_raised = "none"
    /\ removed = {}
    /\ ignored = {}

\* removed_count = 0; ...; for video_file in self.video_dir.glob("*.mp4")
StartSweep ==
    /\ sweep_pc = "idle"
    /\ glob_list' = Listing(present)
    /\ sweep_idx' = 1
    /\ removed_count' = 0
    /\ sweep_pc' = IF present = {} THEN "returned" ELSE "stat"
    /\ UNCHANGED <<present, age_hours, sweep_raised, removed, ignored>>
    /\ UNCHANGED <<timingVars, wrapVars, renderVars, requestVars, engineVars, pc>>

\* if current_time - video_file.stat().st_mtime > max_age_seconds:
\* stat() of a file that is gone raises FileNotFoundError outside the try
AgeCheck ==
    /\ sweep_pc = "stat"
    /\ LET f == glob_list[sweep_idx]
       IN  IF f \notin present
           THEN /\ sweep_raised' = "FileNotFoundError"
                /\ sweep_pc' = "raised"
                /\ UNCHANGED sweep_idx
           ELSE /\ UNCHANGED sweep_raised
                /\ IF IsAged(age_hours[f], MaxAgeHours)
                   THEN sweep_pc' = "unlink" /\ UNCHANGED sweep_idx
                   ELSE NextFile
    /\ UNCHANGED <<present, age_hours, glob_list, removed_count, removed, ignored>>
    /\ UNCHANGED <<timingVars, wrapVars, renderVars, requestVars, engineVars, pc>>

\* try: video_file.unlink(); removed_count += 1; except OSError: pass
UnlinkFile ==
    /\ sweep_pc = "unlink"
    /\ LET f == glob_list[sweep_idx]
           u == TryUnlink(f \in present, removed_count)
       IN  /\ removed_count' = u.removed_count
           /\ present' = present \ {f}
           /\ removed' = IF u.unlinked THEN removed \cup {f} ELSE removed
           /\ IF u.raised = "none"
              THEN /\ ignored' = IF u.unlinked THEN ignored ELSE ignored \cup {f}
                   /\ UNCHANGED sweep_raised
                   /\ NextFile
              ELSE /\ sweep_raised' = u.raised
                   /\ sweep_pc' = "raised"
                   /\ UNCHANGED <<sweep_idx, ignored>>
    /\ UNCHANGED <<age_hours, glob_list>>
    /\ UNCHANGED <<timingVars, wrapVars, renderVars, requestVars, engineVars, pc>>

\* a request handler, a second sweep or the user deletes a file while the sweep runs
ExternalDelete ==
    /\ sweep_pc \in {"stat", "unlink"}
    /\ \E f \in present : present' = present \ {f}
    /\ UNCHANGED <<age_hours, glob_list, sweep_pc, sweep_idx, removed_count,
                   sweep_raised, removed, ignored>>
    /\ UNCHANGED <<timingVars, wrapVars, renderVars, requestVars, engineVars, pc>>

NextCleanup ==
    \/ StartSweep
    \/ AgeCheck
    \/ UnlinkFile
    \/ ExternalDelete

SpecCleanup == InitCleanup /\ [][NextCleanup]_vars

(***************************************************************************)
(* The engine factory and the synthesis calls of TTSService                *)
(***************************************************************************)
\* The route handlers are coroutines without an await and the services they call
\* are synchronous: a call runs from its first line to its return before the
\* event loop starts the next one, so each call is one step and the calls of
\* different requests interleave as whole calls.
MaxCalls == 2

\* settings.AUDIO_DIR and the directory a test patches in its place
AudioDirs == {"AUDIO_DIR", "tmp_path"}
AudioFormats == {"mp3", "wav"}
ConfigFormat == "mp3"

\* the module-level service of the routes and a service built by the fixture
Services == [audio_dir : AudioDirs, audio_format : {ConfigFormat},
             default_engine : {"gtts"}]
RouteService == [audio_dir |-> "AUDIO_DIR", audio_format |-> ConfigFormat,
                 default_engine |-> "gtts"]

EmDash == 8212
EnDash == 8211
Hyphen == 45
Ellipsis == 8230
FullStop == 46

\* the texts of the calls: empty, blank, and a word after a space that ends with
\* a typographic character
SpeechTexts == {<<>>, <<SPACE, SPACE>>, <<SPACE, 98, Ellipsis>>}

\* the engines a call of the service names: none (the default engine) or one
\* that is not the default
EngineChoices == {NoEngine, "edge", "piper"}

\* the engine names a request carries
EngineNames == {"", "EDGE", "piper", "bogus"}

\* what is installed: everything, no piper binary, no edge-tts package, neither
\* piper nor the gtts package
Installations ==
    {[e \in Engines |-> TRUE],
     [e \in Engines |-> e # "piper"],
     [e \in Engines |-> e # "edge"],
     [e \in Engines |-> e = "edge"]}

\* engine_str.lower()
Lower(s) == IF s = "EDGE" THEN "edge" ELSE s

\* TTSService.parse_engine
parse_engine(engine_str) ==
    IF engine_str = "" THEN NoEngine
    ELSE IF Lower(engine_str) \in Engines THEN Lower(engine_str)
    ELSE NoEngine

\* text.replace(old, new) for the replacements of clean_text_for_tts; the other
\* entries of the table replace '"' by itself and a string of sixteen characters
\* that no text here contains
RECURSIVE Replacements(_)
Replacements(s) ==
    IF s = <<>> THEN <<>>
    ELSE (CASE Head(s) = Ellipsis -> <<FullStop, FullStop, FullStop>>
            [] Head(s) \in {EmDash, EnDash} -> <<Hyphen>>
            [] OTHER -> <<Head(s)>>) \o Replacements(Tail(s))

\* str.strip()
RECURSIVE Strip(_)
Strip(s) ==
    IF s = <<>> THEN <<>>
    ELSE IF IsWhitespace(Head(s)) THEN Strip(Tail(s))
    ELSE IF IsWhitespace(s[Len(s)]) THEN Strip(SubSeq(s, 1, Len(s) - 1))
    ELSE s

\* variant: the text is passed on as it came
clean_text_for_tts_Raw(s) == s

\* text_utils.clean_text_for_tts
clean_text_for_tts(s) == Strip(Replacements(Join(Split(s))))

\* what the libraries and the network do during one call: the synthesis of the
\* engine, the conversion of Piper's WAV, pydub's load and export, the gTTS
\* synthesis of the repeated text, and whether a writer that failed had already
\* created its output file
Environments ==
    {env \in [generate : {"ok", "fail"}, convert : {"ok", "fail"},
              pydub : {"ok", "OSError", "error"}, fallback : {"ok", "fail"},
              leftover : BOOLEAN] :
        \* what is not reached after a failure, or leaves nothing to tell, is fixed
        /\ env.generate = "fail" => env.convert = "ok" /\ env.pydub = "ok"
        /\ env.convert = "fail" => env.pydub = "ok"
        /\ env.pydub # "OSError" => env.fallback = "ok"
        /\ env.leftover => (env.pydub = "error" \/ env.fallback = "fail")}

\* the environments of a call that only synthesizes
SynthesisEnvironments == {env \in Environments : env.pydub = "ok"}

Fine == [generate |-> "ok", convert |-> "ok", pydub |-> "ok", fallback |-> "ok",
         leftover |-> FALSE]

\* the environments that make a difference to a call with this text and these
\* repetitions: none when nothing is synthesized, the synthesis when nothing is
\* repeated
EnvironmentsOf(txt, reps) ==
    IF clean_text_for_tts(txt) = <<>> \/ reps < 1 THEN {Fine}
    ELSE IF reps = 1 THEN SynthesisEnvironments
    ELSE Environments

\* the state a call works on and what it has done so far
Begin ==
    [instances |-> instances, constructed |-> constructed, files |-> {},
     exception |-> "none", path |-> NoFile, returned |-> <<>>,
     generate_calls |-> 0, export_calls |-> 0, created |-> {}]

\* engine_class(audio_dir, audio_format); PiperTTSEngine hands "wav" to the base class
NewInstance(engine, audio_dir, audio_format, serial) ==
    [engine |-> engine, audio_dir |-> audio_dir,
     audio_format |-> IF engine = "piper" THEN "wav" ELSE audio_format,
     output_format |-> audio_format, serial |-> serial]

\* variant: every call constructs an engine object
get_engine_Uncached(x, engine, audio_dir, audio_format) ==
    LET inst == NewInstance(engine, audio_dir, audio_format, x.constructed[engine] + 1)
    IN  [x EXCEPT !.instances[engine] = inst,
                  !.constructed[engine] = @ + 1,
                  !.returned = Append(@, inst)]

\* TTSEngineFactory.get_engine
get_engine(x, engine, audio_dir, audio_format) ==
    IF x.instances[engine] = NoInstance
    THEN LET inst == NewInstance(engine, audio_dir, audio_format,
                                 x.constructed[engine] + 1)
         IN  [x EXCEPT !.instances[engine] = inst,
                       !.constructed[engine] = @ + 1,
                       !.returned = Append(@, inst)]
    ELSE [x EXCEPT !.returned = Append(@, x.instances[engine])]

\* the engine object the last get_engine returned
Engine(x) == x.returned[Len(x.returned)]

\* GTTSEngine.generate, EdgeTTSEngine.generate, PiperTTSEngine.generate by call n:
\* the file is written at self.audio_dir / <prefix><uuid4>.<self.audio_format>,
\* Piper's WAV is converted when output_format is "mp3" and the conversion works;
\* a failure unlinks the file and raises RuntimeError
EngineGenerate(x, inst, n, env) ==
    LET ext == IF inst.engine = "piper" /\ inst.output_format = "mp3"
                  /\ env.convert = "ok"
               THEN "mp3" ELSE inst.audio_format
        single_path == [audio_dir |-> inst.audio_dir, ext |-> ext, owner |-> n,
                       role |-> "single"]
    IN  IF ~available[inst.engine] \/ env.generate = "fail"
        THEN [x EXCEPT !.generate_calls = @ + 1, !.exception = "RuntimeError"]
        ELSE [x EXCEPT !.generate_calls = @ + 1,
                       !.files = @ \cup {single_path},
                       !.created = @ \cup {single_path},
                       !.path = single_path]

\* TTSService.generate_audio
generate_audio(x, svc, txt, engine, n, env) ==
    LET clean_text == clean_text_for_tts(txt)
        selected_engine == IF engine = NoEngine THEN svc.default_engine ELSE engine
        x1 == get_engine(x, selected_engine, svc.audio_dir, svc.audio_format)
        x2 == IF ~available[Engine(x1).engine]
              THEN get_engine(x1, "gtts", svc.audio_dir, svc.audio_format)
              ELSE x1
        x3 == EngineGenerate(x2, Engine(x2), n, env)
    IN  IF clean_text = <<>>
        THEN [x EXCEPT !.exception = "ValueError"]
        ELSE IF x3.exception # "none"
             THEN [x3 EXCEPT !.exception = "Exception"]
             ELSE x3

\* the repetitions > 1 part of TTSService.generate_and_repeat, after the single
\* synthesis x1 succeeded
RepeatAudio(x1, svc, n, env) ==
    LET single_path == x1.path
        output_path == [audio_dir |-> svc.audio_dir, ext |-> svc.audio_format,
                        owner |-> n, role |-> "repeat"]
        left == IF env.leftover THEN {output_path} ELSE {}
    IN  CASE env.pydub = "ok" ->
                 \* combined.export(output_path); audio_path.unlink()
                 [x1 EXCEPT !.export_calls = @ + 1,
                            !.files = (@ \cup {output_path}) \ {single_path},
                            !.created = @ \cup {output_path},
                            !.path = output_path]
          [] env.pydub = "OSError" ->
                 \* except (OSError, FileNotFoundError): audio_path.unlink(), then
                 \* gTTS(text=repeated_text).save(output_path)
                 IF env.fallback = "ok"
                 THEN [x1 EXCEPT !.export_calls = @ + 1,
                                 !.generate_calls = @ + 1,
                                 !.files = (@ \ {single_path}) \cup {output_path},
                                 !.created = @ \cup {output_path},
                                 !.path = output_path]
                 ELSE [x1 EXCEPT !.export_calls = @ + 1,
                                 !.generate_calls = @ + 1,
                                 !.files = (@ \ {single_path}) \cup left,
                                 !.created = @ \cup left,
                                 !.path = NoFile,
                                 !.exception = "Exception"]
          [] OTHER ->
                 \* except Exception: if audio_path.exists(): audio_path.unlink()
                 [x1 EXCEPT !.export_calls = @ + 1,
                            !.files = (@ \ {single_path}) \cup left,
                            !.created = @ \cup left,
                            !.path = NoFile,
                            !.exception = "Exception"]

\* variant: one repetition is exported like any other number
generate_and_repeat_Always(x, svc, txt, reps, engine, n, env) ==
    LET x1 == generate_audio(x, svc, txt, engine, n, env)
    IN  IF reps < 1 THEN [x EXCEPT !.exception = "ValueError"]
        ELSE IF x1.exception # "none" THEN x1
        ELSE RepeatAudio(x1, svc, n, env)

\* TTSService.generate_and_repeat
generate_and_repeat(x, svc, txt, reps, engine, n, env) ==
    LET x1 == generate_audio(x, svc, txt, engine, n, env)
    IN  IF reps < 1 THEN [x EXCEPT !.exception = "ValueError"]
        ELSE IF x1.exception # "none" THEN x1
        ELSE IF reps = 1 THEN x1
        ELSE RepeatAudio(x1, svc, n, env)

\* the call leaves the state x behind and answers with status_code
Served(x, c, status_code, raised_400) ==
    /\ pc = "synthesizing"
    /\ calls' = calls + 1
    /\ call' = c
    /\ instances' = x.instances
    /\ constructed' = x.constructed
    /\ audio_files' = x.files
    /\ outcome' = [exception |-> x.exception, status_code |-> status_code,
                   raised_400 |-> raised_400, path |-> x.path,
                   returned |-> x.returned, generate_calls |-> x.generate_calls,
                   export_calls |-> x.export_calls, created |-> x.created]
    /\ UNCHANGED available
    /\ UNCHANGED <<timingVars, wrapVars, renderVars, requestVars, cleanupVars, pc>>

\* a caller of the factory: TTSEngineFactory.get_engine(engine, audio_dir,
\* audio_format).generate(text)
UseEngine ==
    /\ calls < MaxCalls
    /\ \E e \in Engines, d \in AudioDirs, f \in AudioFormats,
          env \in SynthesisEnvironments :
          LET x1 == get_engine(Begin, e, d, f)
              x2 == EngineGenerate(x1, Engine(x1), calls + 1, env)
          IN  Served(x2, [op |-> "get_engine", text |-> <<97>>, repetitions |-> 1,
                          engine |-> e, audio_dir |-> d, audio_format |-> f],
                     0, FALSE)

\* TTSEngineFactory.get_available_engines: for engine_type in TTSEngine
GetAvailableEngines ==
    /\ calls < MaxCalls
    /\ LET x1 == get_engine(Begin, "gtts", "AUDIO_DIR", ConfigFormat)
           x2 == get_engine(x1, "edge", "AUDIO_DIR", ConfigFormat)
           x3 == get_engine(x2, "piper", "AUDIO_DIR", ConfigFormat)
       IN  Served(x3, [op |-> "get_available_engines", text |-> <<>>,
                       repetitions |-> 1, engine |-> NoEngine,
                       audio_dir |-> "AUDIO_DIR", audio_format |-> ConfigFormat],
                  0, FALSE)

\* a call of TTSService.generate_audio
GenerateAudioCall ==
    /\ calls < MaxCalls
    /\ \E svc \in Services, txt \in SpeechTexts, e \in EngineChoices :
       \E env \in EnvironmentsOf(txt, 1) :
          Served(generate_audio(Begin, svc, txt, e, calls + 1, env),
                 [op |-> "generate_audio", text |-> txt, repetitions |-> 1,
                  engine |-> e, audio_dir |-> svc.audio_dir,
                  audio_format |-> svc.audio_format],
                 0, FALSE)

\* a call of TTSService.generate_and_repeat
GenerateAndRepeatCall ==
    /\ calls < MaxCalls
    /\ \E svc \in Services, txt \in SpeechTexts, reps \in RepetitionCounts,
          e \in EngineChoices :
       \E env \in EnvironmentsOf(txt, reps) :
          Served(generate_and_repeat(Begin, svc, txt, reps, e, calls + 1, env),
                 [op |-> "generate_and_repeat", text |-> txt, repetitions |-> reps,
                  engine |-> e, audio_dir |-> svc.audio_dir,
                  audio_format |-> svc.audio_format],
                 0, FALSE)

\* POST /repeat-audio: the HTTPException(400) of the validation is raised inside
\* the try whose except Exception raises HTTPException(500)
RepeatAudioEndpoint ==
    /\ calls < MaxCalls
    /\ \E txt \in SpeechTexts, reps \in RepetitionCounts, name \in EngineNames :
       \E env \in EnvironmentsOf(txt, IF reps > MaxRepetitions THEN 0 ELSE reps) :
          LET c == [op |-> "repeat_audio_endpoint", text |-> txt,
                    repetitions |-> reps, engine |-> name,
                    audio_dir |-> RouteService.audio_dir,
                    audio_format |-> RouteService.audio_format]
              x == generate_and_repeat(Begin, RouteService, txt, reps,
                                       parse_engine(name), calls + 1, env)
          IN  IF txt = <<>> \/ reps < MinRepetitions \/ reps > MaxRepetitions
              THEN Served([Begin EXCEPT !.exception = "HTTPException"], c, 500, TRUE)
              ELSE IF x.exception # "none"
                   THEN Served([x EXCEPT !.exception = "HTTPException"], c, 500, FALSE)
                   ELSE Served(x, c, 200, FALSE)

\* GET /tts-voices/{engine}; get_engine_voices asks the factory for the engine
GetTtsVoices ==
    /\ calls < MaxCalls
    /\ \E name \in EngineNames :
          LET c == [op |-> "get_tts_voices", text |-> <<>>, repetitions |-> 1,
                    engine |-> name, audio_dir |-> RouteService.audio_dir,
                    audio_format |-> RouteService.audio_format]
              engine_enum == parse_engine(name)
          IN  IF engine_enum = NoEngine
              THEN Served([Begin EXCEPT !.exception = "HTTPException"], c, 500, TRUE)
              ELSE Served(get_engine(Begin, engine_enum, RouteService.audio_dir,
                                     RouteService.audio_format),
                          c, 200, FALSE)

InitEngine ==
    /\ pc = "synthesizing"
    /\ EstimatorIdle
    /\ RequestsIdle
    /\ CleanupIdle
    /\ available \in Installations
    /\ instances = [e \in Engines |-> NoInstance]
    /\ constructed = [e \in Engines |-> 0]
    /\ audio_files = {}
    /\ calls = 0
    /\ call = NoCall
    /\ outcome = NoOutcome

NextEngine ==
    \/ UseEngine
    \/ GetAvailableEngines
    \/ GenerateAudioCall
    \/ GenerateAndRepeatCall
    \/ RepeatAudioEndpoint
    \/ GetTtsVoices

SpecEngine == InitEngine /\ [][NextEngine]_vars

\* a request for a video, or calls of the speech service: the two
\* generate_and_repeat of the repository side by side
InitRepeat == InitRequest \/ InitEngine

NextRepeat == NextRequest \/ NextEngine

SpecRepeat == InitRepeat /\ [][NextRepeat]_vars

(***************************************************************************)
(* Properties of the timing estimator                                      *)
(***************************************************************************)
Positive(r) == RLt(Zero, r)
Calculated == pc = "calculated" /\ raised = "none"

HasSpace(s) == \E i \in 1 .. Len(s) : s[i] = SPACE
HasNonSpace(s) == \E i \in 1 .. Len(s) : s[i] # SPACE

\* one entry per character, positions 0, 1, ..., len(text)-1 in order
OneEntryPerPosition ==
    /\ Len(char_timings) = Len(text)
    /\ \A k \in 1 .. Len(char_timings) : char_timings[k].position = k - 1

\* C1 as stated: for every text and every totalDuration > 0 the estimator returns
\* exactly len(text) entries with positions 0 .. len(text)-1 in order.
C1_EveryText ==
    (pc = "calculated" /\ Positive(duration)) => (raised = "none" /\ OneEntryPerPosition)

\* C1 amended: for every text with at least one non-space character and every
\* totalDuration > 0 the estimator returns exactly len(text) entries with positions
\* 0 .. len(text)-1 in order; for a text without a non-space character it returns
\* the empty sequence.
C1_NonSpaceText ==
    (pc = "calculated" /\ Positive(duration)) =>
        /\ raised = "none"
        /\ HasNonSpace(text) => OneEntryPerPosition
        /\ ~HasNonSpace(text) => char_timings = <<>>

C1_Witness ==
    /\ Calculated /\ Positive(duration)
    /\ HasSpace(text) /\ HasNonSpace(text)
    /\ Len(char_timings) >= 3

\* C2: in the returned sequence start_time is non-decreasing with position and
\* every entry has end_time > start_time, for every text, duration, lead time >= 0
\* and overlap >= 0.
C2_Ordered ==
    Calculated =>
        \A k \in 1 .. Len(char_timings) :
            /\ RLt(char_timings[k].start_time, char_timings[k].end_time)
            /\ k < Len(char_timings) =>
                   RLe(char_timings[k].start_time, char_timings[k + 1].start_time)

C2_Witness ==
    /\ Calculated
    /\ lead_time = Zero /\ overlap_duration = Zero
    /\ Len(char_timings) >= 3
    /\ HasSpace(text)
    /\ RLt(char_timings[1].start_time, char_timings[3].start_time)

\* twice the weighted position at entry to the k-th character (1-based):
\* 2 for every earlier non-space character, 1 for every earlier space
TwicePosAtEntry(s, k) ==
    2 * Cardinality({i \in 1 .. k - 1 : s[i] # SPACE})
      + Cardinality({i \in 1 .. k - 1 : s[i] = SPACE})

\* x / charsPerSecond with charsPerSecond = (non-space characters) / dur,
\* for x given as twice its value
TwiceOverCps(twice, s, dur) ==
    Rat(twice * dur.n, 2 * Cardinality({i \in 1 .. Len(s) : s[i] # SPACE}) * dur.d)

FollowsFormula(ts, s, dur, lead, overlap) ==
    \A k \in 1 .. Len(ts) :
        LET p2 == TwicePosAtEntry(s, k)
            w2 == IF s[k] = SPACE THEN 1 ELSE 2
        IN  /\ ts[k].start_time = RMax(Zero, RSub(TwiceOverCps(p2, s, dur), lead))
            /\ ts[k].end_time = RAdd(TwiceOverCps(p2 + w2, s, dur), overlap)

\* C3: with pos the running weighted position at entry (0.5 per earlier space, 1 per
\* earlier other character) and charsPerSecond = (non-space characters) /
\* totalDuration, every entry has start = max(0, pos/charsPerSecond - leadTime) and
\* end = (pos + w)/charsPerSecond + overlapDuration.  charsPerSecond is defined for
\* totalDuration > 0; checked for the service estimator with every lead and overlap
\* and for the estimator of app.py with its fixed 0.3 and 0.4.
C3_Formula ==
    /\ (Calculated /\ Positive(duration)) =>
           FollowsFormula(char_timings, text, duration, lead_time, overlap_duration)
    /\ (pc = "app_analyzed" /\ probe = "ok" /\ Positive(duration)) =>
           FollowsFormula(char_timings, text, duration,
                          DefaultLeadTime, DefaultOverlapDuration)

C3_Witness ==
    /\ Calculated /\ Positive(duration)
    /\ Len(char_timings) >= 3
    /\ text[2] = SPACE
    /\ Positive(lead_time)
    /\ Positive(char_timings[3].start_time)

Scenario ==
    /\ Calculated
    /\ text = HiThere
    /\ duration = RInt(2)
    /\ lead_time = Tenths(3)
    /\ overlap_duration = Tenths(4)

\* C4 as stated: for "Hi there", 2.0 s, lead 0.3, overlap 0.4 the entry at position 4
\* is the space, with start 4/3.5 - 0.3 = 59/70 and end 4.5/3.5 + 0.4 = 59/35.
C4_SpaceAtFour ==
    Scenario =>
        /\ char_timings[5].position = 4
        /\ char_timings[5].char = SPACE
        /\ char_timings[5].start_time = Rat(59, 70)
        /\ char_timings[5].end_time = Rat(59, 35)

\* C4 amended: for "Hi there", 2.0 s, lead 0.3, overlap 0.4 the space is the entry at
\* position 2, computed with pos = 2: start 2/3.5 - 0.3 = 19/70, end 2.5/3.5 + 0.4 =
\* 39/35; the entry at position 4 is 'h', computed with pos = 3.5: start
\* 3.5/3.5 - 0.3 = 7/10, end 4.5/3.5 + 0.4 = 59/35.
C4_SpaceAtTwo ==
    Scenario =>
        /\ char_timings[3].position = 2
        /\ char_timings[3].char = SPACE
        /\ char_timings[3].start_time = Rat(19, 70)
        /\ char_timings[3].end_time = Rat(39, 35)
        /\ char_timings[5].position = 4
        /\ char_timings[5].char = 104
        /\ char_timings[5].start_time = Rat(7, 10)
        /\ char_timings[5].end_time = Rat(59, 35)

C4_Witness == Scenario /\ Len(char_timings) = 8

\* C5: for every text and totalDuration > 0 every entry has
\* end_time <= totalDuration + overlapDuration.
C5_EndWithinOverlap ==
    (Calculated /\ Positive(duration)) =>
        \A k \in 1 .. Len(char_timings) :
            RLe(char_timings[k].end_time, RAdd(duration, overlap_duration))

\* C6, for texts with at least one non-space character: if totalDuration <= 0 the
\* estimator does not raise and returns len(text) entries, each with
\* end_time - start_time > 0.
C6_NonPositiveDuration ==
    ((pc \in {"calculated", "app_analyzed"}) /\ probe # "fail"
        /\ RLe(duration, Zero) /\ HasNonSpace(text)) =>
        /\ raised = "none"
        /\ Len(char_timings) = Len(text)
        /\ \A k \in 1 .. Len(char_timings) :
               RLt(char_timings[k].start_time, char_timings[k].end_time)

\* C7: if loading the audio or probing its duration fails, analyze_audio_timing does
\* not raise; it returns one timing entry per character of the text and (the service)
\* a duration > 0.
C7_ProbeFailureNotFatal ==
    (pc \in {"analyzed", "app_analyzed"} /\ probe = "fail") =>
        /\ raised = "none"
        /\ Len(char_timings) = Len(text)
        /\ pc = "analyzed" => Positive(analysis.duration)

\* C8 as stated: when probing fails the timings returned are those of the
\* proportional estimator for the duration len(text) * 0.1, lead 0.3, overlap 0.4.
C8_SameEstimator ==
    (pc = "analyzed" /\ probe = "fail" /\ raised = "none") =>
        char_timings = calculate_character_timings(text, Tenths(Len(text)),
                                                   DefaultLeadTime, DefaultOverlapDuration)

\* C8 amended: when probing fails and analyze_audio_timing returns, the duration is
\* len(text) * 0.1 and the timings are linear, one per character, without lead or
\* overlap: the entry at position i has start_time = i * 0.1 and
\* end_time = (i + 1) * 0.1.
C8_LinearFallback ==
    (pc = "analyzed" /\ probe = "fail" /\ raised = "none") =>
        /\ analysis.duration = Rat(Len(text), 10)
        /\ Len(char_timings) = Len(text)
        /\ \A k \in 1 .. Len(char_timings) :
               /\ char_timings[k].char = text[k]
               /\ char_timings[k].position = k - 1
               /\ char_timings[k].start_time = Rat(k - 1, 10)
               /\ char_timings[k].end_time = Rat(k, 10)

C8_Witness ==
    /\ pc = "analyzed" /\ probe = "fail" /\ raised = "none"
    /\ Len(char_timings) >= 3
    /\ HasSpace(text)

(***************************************************************************)
(* Properties of text segmentation                                         *)
(***************************************************************************)
MaxWidth == width - (padding * 2)

RECURSIVE Concat(_)
Concat(ls) == IF ls = <<>> THEN <<>> ELSE Head(ls) \o Concat(Tail(ls))

\* C9: in CJK mode the wrapped lines, concatenated in order, are exactly the input
\* text, spaces included, whatever the character widths and the max width.
C9_CjkKeepsEveryCharacter ==
    (pc = "wrapped" /\ has_cjk_characters(text)) => Concat(lines) = text

C9_Witness ==
    /\ pc = "wrapped" /\ has_cjk_characters(text)
    /\ HasSpace(text)
    /\ Len(lines) >= 2
    /\ \E i \in 1 .. Len(text) : font[text[i]] > MaxWidth

\* the words of all lines, in order
RECURSIVE LineWords(_)
LineWords(ls) == IF ls = <<>> THEN <<>> ELSE Split(Head(ls)) \o LineWords(Tail(ls))

\* tokens is words, except that a word wider than max_width may stand as several
\* consecutive tokens that concatenate to it
RECURSIVE WordsIntact(_, _, _, _)
WordsIntact(tokens, words, max_width, f) ==
    IF words = <<>> THEN tokens = <<>>
    ELSE IF TextWidth(Head(words), f) <= max_width
         THEN /\ tokens # <<>>
              /\ Head(tokens) = Head(words)
              /\ WordsIntact(Tail(tokens), Tail(words), max_width, f)
         ELSE \E k \in 1 .. Len(tokens) :
                 /\ Concat(SubSeq(tokens, 1, k)) = Head(words)
                 /\ WordsIntact(SubSeq(tokens, k + 1, Len(tokens)), Tail(words),
                                max_width, f)

\* C10: in Latin mode every whitespace-separated word no wider than the max width is
\* one unsplit word of exactly one output line, the words keep their order, and only
\* a word wider than the max width is split.
C10_LatinWordsIntact ==
    (pc = "wrapped" /\ ~has_cjk_characters(text)) =>
        WordsIntact(LineWords(lines), Split(text), MaxWidth, font)

C10_Witness ==
    /\ pc = "wrapped" /\ ~has_cjk_characters(text)
    /\ Len(Split(text)) >= 2
    /\ Len(lines) >= 2
    /\ \A i \in 1 .. Len(Split(text)) : TextWidth(Split(text)[i], font) <= MaxWidth

\* C11: in Latin mode, for a text with at least one word, whenever every single
\* character of the text fits within canvasWidth - 2*padding, every output line
\* measures at most
\* canvasWidth - 2*padding (an over-wide word is sub-split wherever it occurs).
C11_EveryLineFits ==
    (pc = "wrapped" /\ ~has_cjk_characters(text) /\ Split(text) # <<>>
        /\ \A i \in 1 .. Len(text) : font[text[i]] <= MaxWidth) =>
        \A k \in 1 .. Len(lines) : TextWidth(lines[k], font) <= MaxWidth

\* C12: wrapping the empty string returns exactly one line, the empty string, in
\* the text_utils implementation and in the app.py implementation alike.
C12_EmptyTextOneEmptyLine ==
    (pc \in {"wrapped", "app_wrapped"} /\ text = <<>>) => lines = << <<>> >>

(***************************************************************************)
(* Properties of the frame renderer                                        *)
(***************************************************************************)
FrameGenerated == pc \in {"frame", "app_frame"}

\* the positions whose timing window contains time tt, bounds included
InWindow(tt) ==
    {char_timings[k].position : k \in {j \in 1 .. Len(char_timings) :
        /\ RLe(char_timings[j].start_time, tt)
        /\ RLe(tt, char_timings[j].end_time)}}

Rectangles == {k \in 1 .. Len(frame) : frame[k].rectangle}

\* C13: at playback time t the active set is exactly the set of positions p with
\* start_time <= t <= end_time, both bounds inclusive; a rectangle is drawn only at
\* an active position, so for t outside all windows the active set is empty and
\* the frame has no highlight rectangle.
C13_ActiveSetInclusive ==
    FrameGenerated =>
        /\ active_chars = InWindow(frame_time)
        /\ \A k \in Rectangles : frame[k].char_position \in InWindow(frame_time)
        /\ InWindow(frame_time) = {} => (active_chars = {} /\ Rectangles = {})

C13_Witness ==
    /\ FrameGenerated
    /\ \E k \in 1 .. Len(char_timings) :
          /\ char_timings[k].end_time = frame_time
          /\ char_timings[k].position \in active_chars
          /\ \E j \in Rectangles : frame[j].char_position = char_timings[k].position

\* C14: in every rendered frame no highlight rectangle is drawn for a space, even
\* when the position of the space is in the active set.
C14_NoRectangleForSpace ==
    FrameGenerated =>
        \A k \in 1 .. Len(frame) : frame[k].char = SPACE => ~frame[k].rectangle

(***************************************************************************)
(* Properties of the video requests                                        *)
(***************************************************************************)
Routes == {"convert_to_video", "repeat_video_endpoint"}

Returned(r) == rpc[r] = "done" /\ result[r].status = "success"
Failed(r) == rpc[r] = "done" /\ result[r].status = "error"

\* C15: when the concatenation of the repeated video fails, the route still
\* succeeds with the single video, and its result shows the degraded mode: the
\* message does not say the video was repeated N times and the duration is not
\* the N-fold duration.
C15_DegradedModeReported ==
    \A r \in Requests :
        (rpc[r] = "done" /\ concat_failed[r] /\ req[r].kind \in Routes) =>
            /\ result[r].status = "success"
            /\ result[r].filename = SingleVideoPath(r)
            /\ result[r].message_repetitions = 0
            /\ result[r].duration_factor = 1

\* C16: after a video request that ends in an error, no audio or video file
\* created during the request is left on disk.
C16_NoFileLeftAfterError ==
    \A r \in Requests :
        Failed(r) => \A f \in created[r] \ {TempAudioFile} : disk[f] = Absent

\* the font size or the repetition count is outside the range the handler states
OutOfRange(q) ==
    IF q.kind \in Routes
    THEN \/ q.font_size < MinFontSize \/ q.font_size > MaxFontSize
         \/ q.repetitions < MinRepetitions \/ q.repetitions > MaxRepetitions
    ELSE q.repetitions < 1

\* C17: a request whose font size or repetition count is out of range is rejected
\* with an error before any speech synthesis or rendering is started.
C17_OutOfRangeRejected ==
    \A r \in Requests :
        OutOfRange(req[r]) =>
            /\ synth_calls[r] = 0
            /\ render_calls[r] = 0
            /\ rpc[r] = "done" => result[r].status = "error"

\* C18: two requests running at the same time never write to the same file path.
C18_DistinctWritePaths ==
    \A r1, r2 \in Requests :
        r1 # r2 => writing[r1] \cap writing[r2] = {}

\* C20 as stated: a request that returns has rendered the highlighted video
\* exactly once, and for N > 1 its output is the concatenation of N copies of
\* that clip.
C20_OneRenderNCopies ==
    \A r \in Requests :
        Returned(r) =>
            /\ render_calls[r] = 1
            /\ repetitions[r] > 1 => disk[result[r].filename] = Complete(repetitions[r])

\* C20 amended: no request renders the highlighted video more than once, a request
\* that returns has rendered it exactly once, and its output is the concatenation
\* of N copies of that clip when N > 1 and the concatenation succeeded, and the
\* single clip itself when N = 1 or the concatenation failed.
C20_OneRenderCopies ==
    \A r \in Requests :
        /\ render_calls[r] <= 1
        /\ Returned(r) =>
              /\ render_calls[r] = 1
              /\ disk[result[r].filename] =
                    Complete(IF repetitions[r] > 1 /\ ~concat_failed[r]
                             THEN repetitions[r] ELSE 1)

C20_Witness ==
    \E r \in Requests :
        /\ Returned(r)
        /\ repetitions[r] > 1
        /\ ~concat_failed[r]
        /\ result[r].filename = RepeatVideoPath(r)
        /\ disk[RepeatVideoPath(r)].copies = repetitions[r]
        /\ disk[SingleVideoPath(r)] = Absent

(***************************************************************************)
(* Properties of the sweep of aged files                                   *)
(***************************************************************************)
\* the file the loop is at passed its age check and is gone before the unlink
VanishedBeforeUnlink ==
    sweep_pc = "unlink" /\ glob_list[sweep_idx] \notin present

\* the sweep takes its step
SweepStep == sweep_pc' # sweep_pc \/ sweep_idx' # sweep_idx

\* C19: if an aged file disappears after its age check and before the unlink, the
\* sweep ignores it: no exception escapes, removed_count does not count the file,
\* and the loop goes on to the next listed file (or returns after the last).
C19_VanishedFileIgnored ==
    [][(VanishedBeforeUnlink /\ SweepStep) =>
          /\ sweep_raised' = "none"
          /\ removed_count' = removed_count
          /\ removed' = removed
          /\ IF sweep_idx < Len(glob_list)
             THEN sweep_pc' = "stat" /\ sweep_idx' = sweep_idx + 1
             ELSE sweep_pc' = "returned"]_vars

C19_Witness ==
    /\ sweep_pc = "returned"
    /\ sweep_raised = "none"
    /\ \E f \in ignored : \E g \in removed : g > f
    /\ removed_count = Cardinality(removed)

(***************************************************************************)
(* Further properties of the renderer, the wrapper and the sweep           *)
(***************************************************************************)
\* C25: in every rendered frame the k-th character drawn, counted from 0 across
\* the wrapped lines, is the character at position k of the original text, so the
\* highlight state of position k is applied to text[k].
C25_DrawnIndexIsTextIndex ==
    FrameGenerated =>
        \A k \in 1 .. Len(frame) :
            /\ frame[k].char_position = k - 1
            /\ k <= Len(text)
            /\ frame[k].char = text[k]

\* C26: wrap_text_for_video never returns an empty list: for every text, also one
\* made only of whitespace, the result has at least one line.
C26_AtLeastOneLine ==
    pc = "wrapped" => Len(lines) >= 1

\* C28: cleanup_old_files never raises, whatever files are deleted by others while
\* it runs, and the count it returns is the number of files it deleted itself.
C28_SweepNeverRaises ==
    /\ sweep_raised = "none"
    /\ sweep_pc # "raised"
    /\ sweep_pc = "returned" => removed_count = Cardinality(removed)

(***************************************************************************)
(* Properties of the engine factory and the speech service                 *)
(***************************************************************************)
LastCall(op) == calls >= 1 /\ call.op = op
BlankText(s) == \A i \in 1 .. Len(s) : IsWhitespace(s[i])

\* C23: generate_audio called with an empty or whitespace-only text raises
\* ValueError before it asks the factory for an engine, before any engine
\* synthesizes and before any audio file is created.
C23_BlankTextRaisesFirst ==
    (LastCall("generate_audio") /\ BlankText(call.text)) =>
        /\ outcome.exception = "ValueError"
        /\ outcome.returned = <<>>
        /\ outcome.generate_calls = 0
        /\ outcome.created = {}
        /\ audio_files = {}

C23_Witness ==
    /\ LastCall("generate_audio")
    /\ call.text = <<SPACE, SPACE>>
    /\ outcome.exception = "ValueError"
    /\ \A e \in Engines : instances[e] = NoInstance

\* C22: when generate_audio fails with an error of the synthesis although the
\* gTTS engine is available, the engine that failed is the gTTS engine: a failure
\* of any other engine was made up for by the gTTS fallback.
C22_ErrorOnlyWhenGttsFails ==
    (LastCall("generate_audio") /\ outcome.exception = "Exception"
        /\ available["gtts"]) =>
        /\ outcome.returned # <<>>
        /\ Engine(outcome).engine = "gtts"

\* C24: the factory constructs at most one engine object per engine type, and
\* every get_engine call returns the one object of its type, whatever the order
\* of the calls of the requests.
C24_OneInstancePerEngineType ==
    /\ \A e \in Engines : constructed[e] <= 1
    /\ \A k \in 1 .. Len(outcome.returned) :
          /\ outcome.returned[k].serial = 1
          /\ outcome.returned[k] = instances[outcome.returned[k].engine]

C24_Witness ==
    /\ calls >= 2
    /\ \E k \in 1 .. Len(outcome.returned) :
          /\ outcome.returned[k].audio_dir # call.audio_dir
          /\ constructed[outcome.returned[k].engine] = 1

\* C30: the audio file written through the engine that get_engine(engine,
\* audio_dir, audio_format) returned lies in the audio_dir of that call and,
\* written by an engine that does not convert its output (gTTS, Edge), has the
\* audio_format of that call.
C30_WritesWhereAsked ==
    ((LastCall("get_engine") \/ LastCall("generate_audio"))
        /\ outcome.exception = "none") =>
        /\ outcome.path.audio_dir = call.audio_dir
        /\ Engine(outcome).engine # "piper" => outcome.path.ext = call.audio_format

\* C29: a generate_and_repeat of the speech service that raises leaves none of
\* its files behind, and one that returns with repetitions > 1 leaves only the
\* repeated output file it returns.
C29_NoOrphanFiles ==
    LastCall("generate_and_repeat") =>
        /\ outcome.exception # "none" => audio_files = {}
        /\ (outcome.exception = "none" /\ call.repetitions > 1) =>
              /\ outcome.path.role = "repeat"
              /\ audio_files = {outcome.path}

\* C27: a request whose validation raises HTTPException(400) in the handler is
\* answered with status 400.
C27_ValidationErrorIs400 ==
    ((LastCall("repeat_audio_endpoint") \/ LastCall("get_tts_voices"))
        /\ outcome.raised_400) =>
        outcome.status_code = 400

\* C21: with repetitions = 1 both generate_and_repeat return the file of the
\* single generation step: the video service renders once, writes no repeated
\* video and returns the single video; the speech service synthesizes once,
\* exports nothing and returns the path generate_audio gave it, the only file of
\* the call.
C21_OneRepetitionIsTheSingleAsset ==
    /\ \A r \in Requests :
          (req[r].kind = "generate_and_repeat" /\ repetitions[r] = 1
              /\ Returned(r)) =>
              /\ result[r].filename = SingleVideoPath(r)
              /\ disk[SingleVideoPath(r)] = Complete(1)
              /\ disk[RepeatVideoPath(r)] = Absent
              /\ render_calls[r] = 1
    /\ (LastCall("generate_and_repeat") /\ call.repetitions = 1
           /\ outcome.exception = "none") =>
              /\ outcome.path.role = "single"
              /\ outcome.generate_calls = 1
              /\ outcome.export_calls = 0
              /\ audio_files = {outcome.path}

C21_Witness ==
    /\ LastCall("generate_and_repeat")
    /\ call.repetitions = 1
    /\ outcome.exception = "none"
    /\ outcome.path \in audio_files
====
